---- MODULE Spec2Model ----
(***************************************************************************)
(* Model of the resume matching pipeline of resume_matcher_enhanced.py:    *)
(* the two screens (IndividualResumeScreen, EnhancedResumeRankerGUI), the  *)
(* background worker each Analyze click starts, the progress sink          *)
(* update_progress, the completion sink update_results_display and the     *)
(* failure sink handle_error.                                              *)
(*                                                                         *)
(* Threads: the interactive (Tk main loop) thread runs one handler at a    *)
(* time; every worker is a Python thread whose statements interleave with  *)
(* the handlers at bytecode granularity.  A worker step of the model holds *)
(* at most one access to the data shared with the other threads, together  *)
(* with the progress calls next to it.                                     *)
(* Modal message boxes are taken as dismissed at once.                     *)
(*                                                                         *)
(* Only one screen has widgets at a time: going back destroys them and     *)
(* opening a screen constructs a new object.  The variable screen is the   *)
(* object shown; a run whose screen was left is detached and keeps what    *)
(* its worker can still read of the old object (the list of documents).    *)
(***************************************************************************)
EXTENDS Integers, Sequences, FiniteSets, TLC

\* ------------------------------------------------------------------ bounds
NumFiles == 3        \* PDF files the user can pick: 1..NumFiles
MaxRuns == 2         \* Analyze clicks that start a worker, over the session
MaxInFlight == 2     \* runs in flight (thread alive or callback pending) at a time
MaxResumes == 2      \* entries of IndividualResumeScreen.resume_list

Files == 1..NumFiles
\* files whose extraction (fitz.open / get_text) raises
Corrupt == {f \in Files : f = 2}
\* cosine similarity of a file's text to the job text, in 1/10000
CosineScore(f) == CASE f % 3 = 1 -> 5714 [] f % 3 = 0 -> 9000 [] OTHER -> 3000

Min(a, b) == IF a <= b THEN a ELSE b
Max(a, b) == IF a >= b THEN a ELSE b

\* --------------------------------------------------------------- fractions
\* A progress fraction is the rational n/d in lowest terms (d > 0); 0.5,
\* i/10, 0.5+v*0.5 and (i+1)/total*0.5 are exact or correctly rounded in
\* binary floating point, so that order and equality with 0.0 and 1.0 agree
\* with the rationals.
RECURSIVE GCD(_, _)
GCD(a, b) == IF b = 0 THEN a ELSE GCD(b, a % b)

Frac(n, d) == LET g == GCD(n, d) IN [n |-> n \div g, d |-> d \div g]
FLe(a, b) == a.n * b.d <= b.n * a.d
Zero == Frac(0, 1)
One == Frac(1, 1)
Half == Frac(1, 2)

\* load_model: progress_callback(i/10, ...) in for i in range(1, 11)
LoadSteps == 10
LoadStepFraction_whole(i) == Frac(i, 1)

LoadStepFraction(i) == Frac(i, 10)

\* process_resumes_worker: (i+1)/total_files * 0.5
ExtractFraction(i, total_files) == Frac(i + 1, 2 * total_files)

\* ranking_progress_callback: 0.5 + value * 0.5, value given in tenths
ranking_progress_callback_short(tenths) == Frac(25 + 2 * tenths, 50)

ranking_progress_callback(tenths) == Frac(10 + tenths, 20)

\* ----------------------------------------------------------------- ranking
\* sorted(zip(resumes, scores), key=lambda x: x[1], reverse=True): a stable
\* sort by descending score, as insertion of each entry after the entries
\* whose score is not smaller.
RECURSIVE InsertRanked(_, _)
InsertRanked_unstable(ranked, e) ==
    IF ranked = <<>> THEN <<e>>
    ELSE IF Head(ranked)[2] > e[2]
         THEN <<Head(ranked)>> \o InsertRanked(Tail(ranked), e)
         ELSE <<e>> \o ranked

InsertRanked(ranked, e) ==
    IF ranked = <<>> THEN <<e>>
    ELSE IF Head(ranked)[2] >= e[2]
         THEN <<Head(ranked)>> \o InsertRanked(Tail(ranked), e)
         ELSE <<e>> \o ranked

RECURSIVE SortedDesc(_)
SortedDesc_unsorted(pairs) == pairs

SortedDesc(pairs) ==
    IF pairs = <<>> THEN <<>>
    ELSE InsertRanked(SortedDesc(SubSeq(pairs, 1, Len(pairs) - 1)), pairs[Len(pairs)])

\* zip(resumes, cosine_scores): stops at the shorter of the two
Zip_dropping(resumes, scores) == [k \in 1..(Min(Len(resumes), Len(scores)) - 1) |-> <<resumes[k], scores[k]>>]

Zip(resumes, scores) == [k \in 1..Min(Len(resumes), Len(scores)) |-> <<resumes[k], scores[k]>>]

\* model.encode(resume_texts) followed by pytorch_cos_sim: one score per text
Scores(texts) == [k \in 1..Len(texts) |-> CosineScore(texts[k])]

\* rank_resumes: ranked_resumes = sorted(zip(resumes, scores), ...)
rank_resumes(resumes, texts) == SortedDesc(Zip(resumes, Scores(texts)))

\* ---------------------------------------------------------------- state
VARIABLES
    model_exists,   \* os.path.exists(MODEL_DIR/all-MiniLM-L6-v2)
    screen,         \* the screen object shown (LandingScreen or one of the two)
    ui_pending,     \* select_resumes between clear() and extend(files)
    run,            \* the runs started so far: worker locals and what the
                    \* sinks of the run have been passed
    after_queue,    \* callbacks scheduled with root.after(0, ...)
    stdout,         \* the lines printed on the standard output (file names)
    call            \* one call of a module-level function, taken alone:
                    \* its arguments and, once it has returned, its result

vars == <<model_exists, screen, ui_pending, run, after_queue, stdout, call>>

None == 0
NoSelection == <<>>

\* the ascending sequence of a set of files (a file dialog's selection)
RECURSIVE SeqOf(_)
SeqOf(S) ==
    IF S = {} THEN <<>>
    ELSE LET m == CHOOSE x \in S : \A y \in S : x <= y
         IN <<m>> \o SeqOf(S \ {m})

\* the selections tried: an unreadable file alone, or every file
Selections == {<<f>> : f \in Corrupt} \cup {SeqOf(Files)}

results_per_page == 10

\* LandingScreen.__init__, IndividualResumeScreen.__init__ (process_btn is
\* created disabled), EnhancedResumeRankerGUI.__init__
NewScreen(kind) ==
    [kind |-> kind,
     selected_files |-> <<>>,
     resume_list |-> <<>>,
     process_btn |-> IF kind = "folder" THEN "normal" ELSE "disabled",
     all_ranked_resumes |-> <<>>,
     current_page |-> 1,
     total_pages |-> 1,
     prev_button |-> "disabled",
     next_button |-> "disabled",
     counter_label |-> 0]   \* the n of "Resumes added: n"

\* no function call is looked at on its own
NoCall == [fn |-> "none"]

Init ==
    /\ model_exists \in BOOLEAN
    /\ screen = NewScreen("landing")
    /\ ui_pending = NoSelection
    /\ run = <<>>
    /\ after_queue = <<>>
    /\ stdout = <<>>
    /\ call = NoCall

Idle == ui_pending = NoSelection
On(kind) == Idle /\ screen.kind = kind
Runs == 1..Len(run)

\* the list of documents of a screen object
Documents(scr) == IF scr.kind = "folder" THEN scr.selected_files ELSE scr.resume_list

\* ------------------------------------------------- what the sinks are passed
\* update_progress(value, ...) of run r is passed f
PassProgress(rec, f) ==
    [rec EXCEPT !.last = f,
                !.nondecreasing = @ /\ FLe(rec.last, f),
                !.in_unit = @ /\ FLe(Zero, f) /\ FLe(f, One),
                !.one_passed = @ \/ f = One,
                !.late = @ \/ rec.results + rec.errors > 0]

\* a progress call the completion or failure handler makes itself while it
\* is being delivered
HandlerProgress(rec, f) == [PassProgress(rec, f) EXCEPT !.late = rec.late]

\* update_results_display(data) of run r is called
PassResult(rec, data) ==
    [rec EXCEPT !.results = @ + 1, !.delivered = data]

\* handle_error(msg) of run r is called
PassError(rec, msg) ==
    [rec EXCEPT !.errors = @ + 1, !.error_msg = msg]

\* ------------------------------------------------------------------ runs
\* locals of one process_resumes_worker call, and the observations of what
\* the run's sinks were passed; the first progress call of a run is
\* update_progress(0, "Initializing analysis...") of process_resumes_thread
NewRun ==
    [attached |-> TRUE,     \* the widgets of the run's screen exist
     list |-> <<>>,         \* documents of the run's screen once detached
     given |-> Documents(screen),  \* the screen's documents at the click
     flow |-> screen.kind,
     pc |-> "load_model",
     i |-> 0,               \* loop variable i of load_model
     total_files |-> 0,     \* len(self.selected_files) read before the loop
     it |-> 0,              \* position of the list iterator of the for loop,
                            \* which is the count i of enumerate
     skipped |-> <<>>,      \* files whose extraction raised (the warnings)
     resumes |-> <<>>,      \* the local list resumes of the folder flow
     texts |-> <<>>,        \* resume_texts of rank_resumes
     ranked |-> <<>>,       \* ranked_resumes_data
     rank_calls |-> 0,      \* calls of rank_resumes
     err |-> "none",        \* str(e) of the exception that ended the try
     last |-> Zero,         \* fraction of the latest progress call
     nondecreasing |-> TRUE,\* no progress call was below the one before it
     in_unit |-> TRUE,      \* every progress call was within [0.0, 1.0]
     one_passed |-> FALSE,  \* a progress call had the fraction 1.0
     late |-> FALSE,        \* a progress call came after the result/error
                            \* callback had been delivered
     results |-> 0,         \* calls of update_results_display
     delivered |-> <<>>,    \* the list update_results_display stored
     errors |-> 0,          \* calls of handle_error
     error_msg |-> "none"]  \* the message handle_error was passed

\* Once a run is over (thread ended, callback run) nothing of the program
\* refers to it any more; its record is kept for one more step
\* and then reset: the observations of a run are final once it is over.
Over(r) == run[r].pc = "done" /\ \A k \in 1..Len(after_queue) : after_queue[k].run # r

InFlight(r) == ~Over(r)
NumInFlight == Cardinality({r \in Runs : InFlight(r)})

Archived == [NewRun EXCEPT !.pc = "done", !.attached = FALSE, !.flow = "none",
                           !.given = <<>>]

Archive(r) == IF Over(r) THEN Archived ELSE run[r]

\* the step leaves the runs alone
Keep == run' = [k \in Runs |-> Archive(k)]

\* the step changes run r
Set(r, rec) == run' = [k \in Runs |-> IF k = r THEN rec ELSE Archive(k)]


\* ============================================================ interactive
\* destroying the widgets of the screen shown detaches its runs: a worker
\* still running keeps the old object, whose list nothing changes any
\* more, and reads it only inside the for loop
Detach(rec) ==
    IF ~rec.attached THEN rec
    ELSE [rec EXCEPT !.attached = FALSE, !.given = <<>>,
                     !.list = IF rec.pc = "for" THEN Documents(screen) ELSE <<>>]

\* LandingScreen.add_individually
add_individually ==
    /\ On("landing")
    /\ screen' = NewScreen("individual")
    /\ Keep
    /\ UNCHANGED <<call, stdout, model_exists, ui_pending, after_queue>>

\* LandingScreen.add_from_folder
add_from_folder ==
    /\ On("landing")
    /\ screen' = NewScreen("folder")
    /\ Keep
    /\ UNCHANGED <<call, stdout, model_exists, ui_pending, after_queue>>

\* IndividualResumeScreen.back_to_main: main_frame.destroy(), LandingScreen
back_to_main ==
    /\ On("individual")
    /\ screen' = NewScreen("landing")
    /\ run' = [r \in Runs |-> Detach(Archive(r))]
    /\ UNCHANGED <<call, stdout, model_exists, ui_pending, after_queue>>

\* EnhancedResumeRankerGUI.back_to_landing: every widget destroyed
back_to_landing ==
    /\ On("folder")
    /\ screen' = NewScreen("landing")
    /\ run' = [r \in Runs |-> Detach(Archive(r))]
    /\ UNCHANGED <<call, stdout, model_exists, ui_pending, after_queue>>

\* IndividualResumeScreen.add_resume.  The name entry and the file chosen
\* with select_pdf are inputs of the handler.  An empty name or no file is
\* rejected with a warning and an extraction error is shown in a message
\* box, both without a change; otherwise the entry is appended, the button
\* enabled and the inputs cleared.
add_resume_enabling(scr, name_given, selected_file) ==
    IF ~name_given \/ selected_file = None THEN scr
    ELSE IF selected_file \in Corrupt THEN [scr EXCEPT !.process_btn = "normal"]
    ELSE [scr EXCEPT !.resume_list = Append(@, selected_file),
                     !.counter_label = Len(scr.resume_list) + 1,
                     !.process_btn = "normal"]

add_resume_on(scr, name_given, selected_file) ==
    IF ~name_given \/ selected_file = None \/ selected_file \in Corrupt THEN scr
    ELSE [scr EXCEPT !.resume_list = Append(@, selected_file),
                     !.counter_label = Len(scr.resume_list) + 1,
                     !.process_btn = "normal"]

add_resume ==
    /\ On("individual")
    /\ Len(screen.resume_list) < MaxResumes
    /\ \E name_given \in BOOLEAN, selected_file \in Files \cup {None} :
         screen' = add_resume_on(screen, name_given, selected_file)
    /\ Keep
    /\ UNCHANGED <<call, stdout, model_exists, ui_pending, after_queue>>

\* EnhancedResumeRankerGUI.select_resumes, first half: the dialog returned
\* files and self.selected_files.clear() has run
select_resumes_clear ==
    /\ On("folder")
    /\ \E files \in Selections :
         /\ files # screen.selected_files
         /\ ui_pending' = files
    /\ screen' = [screen EXCEPT !.selected_files = <<>>]
    /\ Keep
    /\ UNCHANGED <<call, stdout, model_exists, after_queue>>

\* EnhancedResumeRankerGUI.select_resumes, second half: extend(files)
select_resumes_extend ==
    /\ ~Idle
    /\ screen' = [screen EXCEPT !.selected_files = @ \o ui_pending]
    /\ ui_pending' = NoSelection
    /\ Keep
    /\ UNCHANGED <<call, stdout, model_exists, after_queue>>

\* X.update_pagination_controls
update_pagination_controls(scr) ==
    IF scr.all_ranked_resumes = <<>>
    THEN [scr EXCEPT !.prev_button = "disabled", !.next_button = "disabled"]
    ELSE [scr EXCEPT !.prev_button = IF scr.current_page > 1 THEN "normal" ELSE "disabled",
                     !.next_button = IF scr.current_page < scr.total_pages
                                     THEN "normal" ELSE "disabled"]

\* X.process_resumes_thread, what it does to the screen: pagination state
\* reset, controls updated, button disabled
reset_pagination_state(scr) ==
    [update_pagination_controls([scr EXCEPT !.current_page = 1,
                                            !.all_ranked_resumes = <<>>])
        EXCEPT !.process_btn = "disabled"]

\* X.process_resumes_thread past its three input checks: results cleared,
\* pagination reset, button disabled, thread started
process_resumes_thread ==
    /\ screen.process_btn = "normal"
    /\ Len(run) < MaxRuns /\ NumInFlight < MaxInFlight
    /\ \E role_given \in BOOLEAN, description_given \in BOOLEAN :
         /\ Documents(screen) # <<>>
         /\ role_given /\ description_given
    /\ screen' = reset_pagination_state(screen)
    /\ run' = Append([r \in Runs |-> Archive(r)], NewRun)
    /\ UNCHANGED <<call, stdout, model_exists, ui_pending, after_queue>>

\* IndividualResumeScreen.process_resumes_thread (the Analyze button's
\* command; a disabled button does not invoke it)
individual_process_resumes_thread ==
    /\ On("individual")
    /\ process_resumes_thread

\* EnhancedResumeRankerGUI.process_resumes_thread
folder_process_resumes_thread ==
    /\ On("folder")
    /\ process_resumes_thread


\* ================================================================ worker
\* A worker step of the model is one access to state shared with the other
\* threads (the model directory, the screen's list, the callback queue)
\* together with the progress calls next to it: update_progress touches
\* only the widgets of the run's own screen, so it commutes with every
\* handler that leaves those widgets alone.
At(r, pc) == r \in Runs /\ run[r].pc = pc

\* the screen object's list as the worker of run r reads it now
ListOf(r) == IF run[r].attached THEN Documents(screen) ELSE run[r].list

\* the worker function returns: its frame (the locals) is gone; the list
\* the scheduled lambda closes over stays
ThreadEnd(rec) ==
    [rec EXCEPT !.pc = "done", !.i = 0, !.total_files = 0, !.it = 0,
                !.resumes = <<>>, !.skipped = <<>>, !.texts = <<>>, !.list = <<>>,
                !.given = <<>>]

\* an exception raised inside the try of process_resumes_worker reaches
\*   except Exception as e: self.root.after(0, lambda: self.handle_error(str(e)))
\* which schedules the lambda and returns
Raise_continuing(rec, e) == [rec EXCEPT !.err = e]

Raise(rec, e) == [ThreadEnd(rec) EXCEPT !.err = e]

\* the worker function was left (by an exception, inside a step)
Raised(rec) == rec.pc = "done"

\* self.update_progress(value, message) called by the worker:
\* progress_var.set(value * 100), then progress_label.config, which raises
\* TclError when the screen's widgets have been destroyed
UpdateProgress(rec, f) ==
    IF Raised(rec) THEN rec
    ELSE IF rec.attached THEN PassProgress(rec, f)
    ELSE Raise(PassProgress(rec, f), "tcl")

\* the statement after a call that may have raised
Goto(rec, pc) == IF Raised(rec) THEN rec ELSE [rec EXCEPT !.pc = pc]

\* a step of the worker of run r: when it raised, the except clause has
\* scheduled the failure callback
Step(r, rec) ==
    /\ Set(r, rec)
    /\ after_queue' = IF rec.err # "none" /\ run[r].err = "none"
                      THEN Append(after_queue, [run |-> r, kind |-> "error"])
                      ELSE after_queue

\* load_model: if not os.path.exists(model_path), then the first
\* progress_callback(0.0, ...) of the branch taken
load_model_exists_unchecked(r) ==
    /\ At(r, "load_model")
    /\ Step(r, Goto(UpdateProgress(run[r], Zero), "dl_fetch"))
    /\ UNCHANGED <<call, stdout, model_exists, screen, ui_pending>>

load_model_exists(r) ==
    /\ At(r, "load_model")
    /\ Step(r, [Goto(UpdateProgress(run[r], Zero),
                     IF model_exists THEN "ld_loop" ELSE "dl_fetch")
                  EXCEPT !.i = IF model_exists /\ run[r].attached THEN 1 ELSE 0])
    /\ UNCHANGED <<call, stdout, model_exists, screen, ui_pending>>

\* load_model: SentenceTransformer('all-MiniLM-L6-v2') raises (no network);
\* nothing in load_model catches it
load_model_fetch_fails_swallowed(r) ==
    /\ At(r, "dl_fetch")
    /\ Step(r, [run[r] EXCEPT !.pc = "after_load", !.err = "model"])
    /\ UNCHANGED <<call, stdout, model_exists, screen, ui_pending>>

load_model_fetch_fails(r) ==
    /\ At(r, "dl_fetch")
    /\ Step(r, Raise(run[r], "model"))
    /\ UNCHANGED <<call, stdout, model_exists, screen, ui_pending>>

\* load_model: SentenceTransformer(...) returns, model.save(model_path),
\* progress_callback(1.0, "Model downloaded successfully")
load_model_fetch_save(r) ==
    /\ At(r, "dl_fetch")
    /\ model_exists' = TRUE
    /\ Step(r, Goto(UpdateProgress(run[r], One), "after_load"))
    /\ UNCHANGED <<call, stdout, screen, ui_pending>>

\* load_model: for i in range(1, 11): progress_callback(i/10, ...)
load_model_disk_step(r) ==
    /\ At(r, "ld_loop")
    /\ LET i == run[r].i
           rec == UpdateProgress(run[r], LoadStepFraction(i))
       IN Step(r, IF Raised(rec) THEN rec
                  ELSE IF i < LoadSteps THEN [rec EXCEPT !.i = i + 1]
                  ELSE [rec EXCEPT !.i = 0, !.pc = "ld_load"])
    /\ UNCHANGED <<call, stdout, model_exists, screen, ui_pending>>

\* load_model: SentenceTransformer(model_path) raises (unreadable directory)
load_model_disk_fails(r) ==
    /\ At(r, "ld_load")
    /\ Step(r, Raise(run[r], "model"))
    /\ UNCHANGED <<call, stdout, model_exists, screen, ui_pending>>

\* load_model: SentenceTransformer(model_path) returns,
\* progress_callback(1.0, "Model loaded successfully")
load_model_disk_done(r) ==
    /\ At(r, "ld_load")
    /\ Step(r, Goto(UpdateProgress(run[r], One), "after_load"))
    /\ UNCHANGED <<call, stdout, model_exists, screen, ui_pending>>

\* if not resumes: raise ValueError("No valid resumes could be processed.")
\* otherwise rank_resumes(resumes, ...) is called and starts with
\* progress_callback(0.0, "Encoding job description...")
check_resumes(rec, resumes) ==
    IF Raised(rec) THEN rec
    ELSE IF resumes = <<>> THEN Raise(rec, "novalid")
    ELSE Goto(UpdateProgress([rec EXCEPT !.rank_calls = @ + 1],
                             ranking_progress_callback(0)), "rk_job")

\* IndividualResumeScreen.process_resumes_worker after load_model:
\* resumes = self.resume_list; self.update_progress(0.5, "Processing
\* resumes..."); the check of resumes; the call of rank_resumes
individual_use_resume_list(r) ==
    /\ At(r, "after_load") /\ run[r].flow = "individual"
    /\ Step(r, check_resumes(UpdateProgress(run[r], Half), ListOf(r)))
    /\ UNCHANGED <<call, stdout, model_exists, screen, ui_pending>>

\* EnhancedResumeRankerGUI.process_resumes_worker after load_model
\* (preloaded_resume_data is None): resumes = [];
\* total_files = len(self.selected_files);
\* self.update_progress(0, "Extracting text (0/n)...")
folder_total_files(r) ==
    /\ At(r, "after_load") /\ run[r].flow = "folder"
    /\ Step(r, Goto(UpdateProgress([run[r] EXCEPT !.total_files = Len(ListOf(r))], Zero),
                    "for"))
    /\ UNCHANGED <<call, stdout, model_exists, screen, ui_pending>>

\* try: extract_text, extract_candidate_name, normalize_text, resumes.append
\* except Exception as e: print("Warning: Could not process ...")
extract_one_aborting(rec, pdf_path) ==
    IF Raised(rec) THEN rec
    ELSE IF pdf_path \in Corrupt
    THEN Raise(rec, "extract")
    ELSE [rec EXCEPT !.resumes = Append(@, pdf_path)]

extract_one(rec, pdf_path) ==
    IF Raised(rec) THEN rec
    ELSE IF pdf_path \in Corrupt
    THEN [rec EXCEPT !.skipped = Append(@, pdf_path)]
    ELSE [rec EXCEPT !.resumes = Append(@, pdf_path)]

\* print(f"Warning: Could not process {os.path.basename(pdf_path)}: {e}"):
\* one more line on the standard output of the process
print_warning(out, pdf_path) == Append(out, pdf_path)

\* one turn of  for i, pdf_path in enumerate(self.selected_files):
\* the list iterator yields the element at its position in the list as it
\* is now; the body calls update_progress((i+1)/total_files * 0.5, ...),
\* where the division raises ZeroDivisionError for total_files = 0, and
\* extracts pdf_path, printing the warning when the extraction raises
folder_for_body(r) ==
    /\ At(r, "for")
    /\ run[r].it < Len(ListOf(r))
    /\ LET i == run[r].it
           pdf_path == ListOf(r)[i + 1]
           rec == [run[r] EXCEPT !.it = i + 1]
           new == IF rec.total_files = 0
                  THEN Raise(rec, "zerodiv")
                  ELSE extract_one(UpdateProgress(rec, ExtractFraction(i, rec.total_files)),
                                   pdf_path)
       IN /\ Step(r, new)
          /\ stdout' = IF Len(new.skipped) > Len(rec.skipped)
                        THEN print_warning(stdout, pdf_path)
                        ELSE stdout
    /\ UNCHANGED <<call, model_exists, screen, ui_pending>>

\* the list iterator is exhausted: the loop ends, resumes is checked and
\* rank_resumes is called
folder_for_end(r) ==
    /\ At(r, "for")
    /\ run[r].it >= Len(ListOf(r))
    /\ Step(r, check_resumes(run[r], run[r].resumes))
    /\ UNCHANGED <<call, stdout, model_exists, screen, ui_pending>>

\* the list the name resumes refers to inside rank_resumes: the live
\* self.resume_list (resumes = self.resume_list) or the worker's own list
Resumes(r) == IF run[r].flow = "individual" THEN ListOf(r) ELSE run[r].resumes

\* rank_resumes: model.encode(job_description) raises
rank_encode_job_fails(r) ==
    /\ At(r, "rk_job")
    /\ Step(r, Raise(run[r], "encode"))
    /\ UNCHANGED <<call, stdout, model_exists, screen, ui_pending>>

\* rank_resumes: job encoded; progress_callback(0.2, "Encoding resumes...");
\* resume_texts = [resume['text'] for resume in resumes]
rank_encode_job(r) ==
    /\ At(r, "rk_job")
    /\ LET rec == UpdateProgress(run[r], ranking_progress_callback(2))
       IN Step(r, IF Raised(rec) THEN rec
                  ELSE [rec EXCEPT !.pc = "rk_encode", !.texts = Resumes(r)])
    /\ UNCHANGED <<call, stdout, model_exists, screen, ui_pending>>

\* rank_resumes: model.encode(resume_texts) raises
rank_encode_resumes_fails(r) ==
    /\ At(r, "rk_encode")
    /\ Step(r, Raise(run[r], "encode"))
    /\ UNCHANGED <<call, stdout, model_exists, screen, ui_pending>>

\* rank_resumes: batch encoded; progress_callback(0.7, "Computing similarity scores...")
rank_encode_resumes(r) ==
    /\ At(r, "rk_encode")
    /\ Step(r, Goto(UpdateProgress(run[r], ranking_progress_callback(7)), "rk_cos"))
    /\ UNCHANGED <<call, stdout, model_exists, screen, ui_pending>>

\* rank_resumes: cosine scores computed; progress_callback(0.9, "Ranking
\* resumes..."); the sort of zip(resumes, cosine_scores)
rank_sort(r) ==
    /\ At(r, "rk_cos")
    /\ LET rec == UpdateProgress(run[r], ranking_progress_callback(9))
       IN Step(r, IF Raised(rec) THEN rec
                  ELSE [rec EXCEPT !.pc = "rk_done",
                                   !.ranked = rank_resumes(Resumes(r), run[r].texts)])
    /\ UNCHANGED <<call, stdout, model_exists, screen, ui_pending>>

\* self.root.after(0, lambda: self.update_results_display(ranked_resumes_data))
schedule_result_twice(q, r) ==
    q \o <<[run |-> r, kind |-> "result"], [run |-> r, kind |-> "result"]>>

schedule_result(q, r) == Append(q, [run |-> r, kind |-> "result"])

\* rank_resumes: progress_callback(1.0, "Ranking complete"); return; the
\* worker schedules the completion callback and ends
rank_complete(r) ==
    /\ At(r, "rk_done")
    /\ LET rec == UpdateProgress(run[r], ranking_progress_callback(10))
       IN IF Raised(rec)
          THEN Step(r, rec)
          ELSE /\ Set(r, ThreadEnd(rec))
               /\ after_queue' = schedule_result(after_queue, r)
    /\ UNCHANGED <<call, stdout, model_exists, screen, ui_pending>>

\* ====================================================== scheduled callbacks
\* X.update_results_page: total_pages is recomputed, the page is drawn,
\* update_progress(1.0, ...) is called, the button is re-enabled
update_results_page(scr) ==
    [update_pagination_controls(
         [scr EXCEPT !.total_pages =
                         Max(1, (Len(scr.all_ranked_resumes) + results_per_page - 1)
                                \div results_per_page)])
        EXCEPT !.process_btn = "normal"]

\* X.update_results_display(ranked_resumes_data): what is stored in
\* self.all_ranked_resumes
update_results_display(data) == data

HeadIs(kind) == Idle /\ after_queue # <<>> /\ Head(after_queue).kind = kind

\* the main loop runs lambda: self.update_results_display(ranked_resumes_data);
\* on a destroyed screen update_results_page raises TclError at its first
\* statement (winfo_children of a destroyed frame)
after_update_results_display ==
    /\ HeadIs("result")
    /\ LET r == Head(after_queue).run
           stored == update_results_display(run[r].ranked)
           passed == PassResult(run[r], stored)
       IN IF run[r].attached
          THEN /\ screen' = update_results_page(
                               [screen EXCEPT !.all_ranked_resumes = stored,
                                              !.current_page = 1])
               /\ Set(r, HandlerProgress(passed, One))
          ELSE /\ Set(r, passed)
               /\ UNCHANGED screen
    /\ after_queue' = Tail(after_queue)
    /\ UNCHANGED <<call, stdout, model_exists, ui_pending>>

\* X.handle_error(error_msg) on a screen whose widgets exist
handle_error(scr) ==
    [update_pagination_controls([scr EXCEPT !.all_ranked_resumes = <<>>,
                                            !.current_page = 1])
        EXCEPT !.process_btn = "normal"]

\* the main loop runs lambda: self.handle_error(str(e)) before the worker
\* has left its except clause (e is still bound); on a destroyed screen the
\* first statement, update_progress(0, "Error occurred."), raises TclError
\* after progress_var.set
after_handle_error ==
    /\ HeadIs("error")
    /\ LET r == Head(after_queue).run
       IN /\ screen' = IF run[r].attached THEN handle_error(screen) ELSE screen
          /\ Set(r, HandlerProgress(PassError(run[r], run[r].err), Zero))
    /\ after_queue' = Tail(after_queue)
    /\ UNCHANGED <<call, stdout, model_exists, ui_pending>>

\* the main loop runs the lambda after the except clause has ended: Python
\* deletes e at the end of the clause, str(e) raises NameError and
\* handle_error is not called
after_handle_error_unbound ==
    /\ HeadIs("error")
    /\ after_queue' = Tail(after_queue)
    /\ Keep
    /\ UNCHANGED <<call, stdout, model_exists, screen, ui_pending>>

\* =================================================================== spec
RunIds == 1..MaxRuns

Next ==
    \/ add_individually
    \/ add_from_folder
    \/ back_to_main
    \/ back_to_landing
    \/ add_resume
    \/ select_resumes_clear
    \/ select_resumes_extend
    \/ individual_process_resumes_thread
    \/ folder_process_resumes_thread
    \/ \E r \in RunIds : load_model_exists(r)
    \/ \E r \in RunIds : load_model_fetch_fails(r)
    \/ \E r \in RunIds : load_model_fetch_save(r)
    \/ \E r \in RunIds : load_model_disk_step(r)
    \/ \E r \in RunIds : load_model_disk_fails(r)
    \/ \E r \in RunIds : load_model_disk_done(r)
    \/ \E r \in RunIds : individual_use_resume_list(r)
    \/ \E r \in RunIds : folder_total_files(r)
    \/ \E r \in RunIds : folder_for_body(r)
    \/ \E r \in RunIds : folder_for_end(r)
    \/ \E r \in RunIds : rank_encode_job_fails(r)
    \/ \E r \in RunIds : rank_encode_job(r)
    \/ \E r \in RunIds : rank_encode_resumes_fails(r)
    \/ \E r \in RunIds : rank_encode_resumes(r)
    \/ \E r \in RunIds : rank_sort(r)
    \/ \E r \in RunIds : rank_complete(r)
    \/ after_update_results_display
    \/ after_handle_error
    \/ after_handle_error_unbound

Spec == Init /\ [][Next]_vars

\* A worker thread that can take a step takes it in the end, and the main
\* loop runs a callback scheduled with root.after(0, ...) in the end;
\* nothing makes the user act.
WorkerStep(r) ==
    \/ load_model_exists(r)
    \/ load_model_fetch_fails(r)
    \/ load_model_fetch_save(r)
    \/ load_model_disk_step(r)
    \/ load_model_disk_fails(r)
    \/ load_model_disk_done(r)
    \/ individual_use_resume_list(r)
    \/ folder_total_files(r)
    \/ folder_for_body(r)
    \/ folder_for_end(r)
    \/ rank_encode_job_fails(r)
    \/ rank_encode_job(r)
    \/ rank_encode_resumes_fails(r)
    \/ rank_encode_resumes(r)
    \/ rank_sort(r)
    \/ rank_complete(r)

MainLoopStep ==
    \/ select_resumes_extend
    \/ after_update_results_display
    \/ after_handle_error
    \/ after_handle_error_unbound

Fairness ==
    /\ \A r \in RunIds : WF_vars(WorkerStep(r))
    /\ WF_vars(MainLoopStep)

SpecLive == Init /\ [][Next]_vars /\ Fairness

\* ================================================= rank_resumes, taken alone
\* One call rank_resumes(resumes, job_description, model) with nothing else
\* running: resumes is a list of distinct documents, a document being
\* named by its text.
NumDocs == 4         \* documents to choose from: 1..NumDocs
MaxDocs == 4         \* length of the list passed to rank_resumes

Docs == 1..NumDocs
DocLists ==
    {l \in UNION {[1..n -> Docs] : n \in 0..MaxDocs} :
        \A j, k \in 1..Len(l) : j # k => l[j] # l[k]}

\* everything but the call is as the program starts
NothingElse ==
    /\ model_exists = TRUE
    /\ screen = NewScreen("landing")
    /\ ui_pending = NoSelection
    /\ run = <<>>
    /\ after_queue = <<>>
    /\ stdout = <<>>

RankCall(resumes) ==
    [fn |-> "rank_resumes",
     resumes |-> resumes,
     state |-> "called",     \* called, returned or raised
     ranked_resumes |-> <<>>,
     encode_calls |-> 0]     \* calls of model.encode made so far

InitRank ==
    /\ call \in {RankCall(l) : l \in DocLists}
    /\ NothingElse

\* rank_resumes runs to its return: model.encode(job_description),
\* resume_texts, model.encode(resume_texts, ...), pytorch_cos_sim, sorted
rank_resumes_returns ==
    /\ call.fn = "rank_resumes" /\ call.state = "called"
    /\ call' = [call EXCEPT !.state = "returned",
                            !.encode_calls = 2,
                            !.ranked_resumes = rank_resumes(call.resumes, call.resumes)]
    /\ UNCHANGED <<model_exists, screen, ui_pending, run, after_queue, stdout>>

\* with an empty batch model.encode([], convert_to_tensor=True) or
\* pytorch_cos_sim on its result raises in the releases of
\* sentence-transformers that stack the (empty) list of embeddings
rank_resumes_empty_batch_raises ==
    /\ call.fn = "rank_resumes" /\ call.state = "called"
    /\ call.resumes = <<>>
    /\ call' = [call EXCEPT !.state = "raised", !.encode_calls = 2]
    /\ UNCHANGED <<model_exists, screen, ui_pending, run, after_queue, stdout>>

NextRank ==
    \/ rank_resumes_returns
    \/ rank_resumes_empty_batch_raises

SpecRank == InitRank /\ [][NextRank]_vars

\* ============================================ the text functions, taken alone
\* A text is a sequence of characters, each a string of length one.
MaxLen == 4          \* length of the texts tried

\* [A-Z] of the pattern of remove_spaced_out_words
Upper == {"A", "B", "C", "D", "E", "F", "G", "H", "I", "J", "K", "L", "M",
          "N", "O", "P", "Q", "R", "S", "T", "U", "V", "W", "X", "Y", "Z"}
\* the characters \s matches and str.strip() removes, among those tried
Whitespace == {" ", "\t", "\n", "\r", "\f"}
\* the line boundaries of str.splitlines(), among those tried
LineBoundaries == {"\n", "\r", "\f"}
\* the characters of the texts tried: an uppercase and a lowercase letter,
\* a digit, a punctuation character, the space, the tab and the newline
Alphabet == {"A", "a", "1", ".", " ", "\t", "\n"}
Texts == UNION {[1..n -> Alphabet] : n \in 0..MaxLen}

IsSpace(c) == c \in Whitespace
IsUpper_anycase(c) == c \in Upper \cup {"a"}

IsUpper(c) == c \in Upper

\* how many times [A-Z]\s matches in a row from position p
RECURSIVE Pairs(_, _)
Pairs(text, p) ==
    IF p + 1 <= Len(text) /\ IsUpper(text[p]) /\ IsSpace(text[p + 1])
    THEN 1 + Pairs(text, p + 2)
    ELSE 0

\* where the match of (?<!\S)(?:[A-Z]\s)+(?:[A-Z])(?!\S) that starts at p
\* ends, 0 when there is none: the group is repeated greedily and then
\* given back once if the letter or the lookahead after it fails
MatchEnd(text, p) ==
    IF p > 1 /\ ~IsSpace(text[p - 1]) THEN 0
    ELSE LET m == Pairs(text, p)
             q == p + 2 * m
         IN IF /\ m >= 1 /\ q <= Len(text) /\ IsUpper(text[q])
               /\ (q = Len(text) \/ IsSpace(text[q + 1]))
            THEN q
            ELSE IF m >= 2 THEN q - 2 ELSE 0

\* the matches re.sub finds: leftmost first, none overlapping
RECURSIVE Matches(_, _)
Matches(text, p) ==
    IF p > Len(text) THEN {}
    ELSE LET e == MatchEnd(text, p)
         IN IF e > 0 THEN {<<p, e>>} \cup Matches(text, e + 1)
            ELSE Matches(text, p + 1)

\* m.group(0).replace(" ", ""): the positions of the spaces inside a match
Removed(text) ==
    {k \in 1..Len(text) :
        text[k] = " " /\ \E m \in Matches(text, 1) : m[1] <= k /\ k <= m[2]}

RECURSIVE Without(_, _, _)
Without(text, removed, k) ==
    IF k > Len(text) THEN <<>>
    ELSE (IF k \in removed THEN <<>> ELSE <<text[k]>>) \o Without(text, removed, k + 1)

\* remove_spaced_out_words: re.sub(pattern, lambda m: m.group(0).replace(" ", ""), text)
remove_spaced_out_words(text) == Without(text, Removed(text), 1)

\* str.strip()
RECURSIVE lstrip(_)
lstrip(text) ==
    IF text # <<>> /\ IsSpace(Head(text)) THEN lstrip(Tail(text)) ELSE text

RECURSIVE rstrip(_)
rstrip(text) ==
    IF text # <<>> /\ IsSpace(text[Len(text)])
    THEN rstrip(SubSeq(text, 1, Len(text) - 1))
    ELSE text

strip(text) == rstrip(lstrip(text))

\* re.sub(r'\s+', ' ', text)
RECURSIVE collapse(_)
collapse_nothing(text) == text

collapse(text) ==
    IF text = <<>> THEN <<>>
    ELSE IF IsSpace(Head(text))
         THEN <<" ">> \o collapse(lstrip(text))
         ELSE <<Head(text)>> \o collapse(Tail(text))

\* normalize_text
normalize_text(text) == collapse(strip(remove_spaced_out_words(text)))

\* str.splitlines(): the lines without their boundaries, "\r\n" being one
\* boundary; no empty last line after a final boundary
RECURSIVE splitlines(_, _)
splitlines_whole(text, line) == IF text = <<>> THEN <<>> ELSE <<text>>

splitlines(text, line) ==
    IF text = <<>> THEN (IF line = <<>> THEN <<>> ELSE <<line>>)
    ELSE IF Head(text) \in LineBoundaries
         THEN <<line>> \o
              splitlines(IF Head(text) = "\r" /\ Len(text) >= 2 /\ text[2] = "\n"
                         THEN Tail(Tail(text)) ELSE Tail(text), <<>>)
         ELSE splitlines(Tail(text), Append(line, Head(text)))

\* for line in text.splitlines(): stripped_line = line.strip();
\* if stripped_line: return stripped_line
RECURSIVE FirstNonBlank(_)
FirstNonBlank(lines) ==
    IF lines = <<>> THEN <<>>
    ELSE IF strip(Head(lines)) # <<>> THEN strip(Head(lines))
         ELSE FirstNonBlank(Tail(lines))

\* extract_candidate_name
extract_candidate_name(text) == FirstNonBlank(splitlines(text, <<>>))

TextCall(fn, text) == [fn |-> fn, text |-> text, state |-> "called", result |-> <<>>]

InitText ==
    /\ call \in {TextCall(fn, text) :
                    fn \in {"normalize_text", "remove_spaced_out_words",
                            "extract_candidate_name"},
                    text \in Texts}
    /\ NothingElse

Called(fn) == call.fn = fn /\ call.state = "called"
Return(result) == call' = [call EXCEPT !.state = "returned", !.result = result]

call_normalize_text ==
    /\ Called("normalize_text")
    /\ Return(normalize_text(call.text))
    /\ UNCHANGED <<model_exists, screen, ui_pending, run, after_queue, stdout>>

call_remove_spaced_out_words ==
    /\ Called("remove_spaced_out_words")
    /\ Return(remove_spaced_out_words(call.text))
    /\ UNCHANGED <<model_exists, screen, ui_pending, run, after_queue, stdout>>

call_extract_candidate_name ==
    /\ Called("extract_candidate_name")
    /\ Return(extract_candidate_name(call.text))
    /\ UNCHANGED <<model_exists, screen, ui_pending, run, after_queue, stdout>>

NextText ==
    \/ call_normalize_text
    \/ call_remove_spaced_out_words
    \/ call_extract_candidate_name

SpecText == InitText /\ [][NextText]_vars

\* ============================================== one screen, taken alone
\* One screen object and its handlers: add_resume, the Analyze click, the
\* delivery of the callback a worker scheduled, next_page and prev_page.
\* The worker leaves the screen alone but for the progress bar; it is taken
\* up to the callback it schedules.  call holds the latest handler call
\* and, for a handler that draws a page, the result cards it drew.
MaxRanked == 25      \* documents of a ranking

\* the ranking rank_resumes returns for the documents 1..n
Rankings == [n \in 0..MaxRanked |-> rank_resumes(SeqOf(1..n), SeqOf(1..n))]

\* update_results_page: resumes_to_display = all_ranked_resumes[start_index:end_index]
\* and, for each of them, rank = start_index + i + 1
PageOf_overlapping(ranked, page) ==
    LET start_index == (page - 1) * (results_per_page - 1)
        end_index == start_index + results_per_page
        lo == Min(start_index, Len(ranked))
        hi == Min(end_index, Len(ranked))
    IN [i \in 1..(hi - lo) |-> [rank |-> start_index + i, entry |-> ranked[lo + i]]]

PageOf(ranked, page) ==
    LET start_index == (page - 1) * results_per_page
        end_index == start_index + results_per_page
        lo == Min(start_index, Len(ranked))
        hi == Min(end_index, Len(ranked))
    IN [i \in 1..(hi - lo) |-> [rank |-> start_index + i, entry |-> ranked[lo + i]]]

\* the cards update_results_page draws on the screen
resumes_to_display(scr) == PageOf(scr.all_ranked_resumes, scr.current_page)

\* X.next_page
NextPage_unguarded(scr) == update_results_page([scr EXCEPT !.current_page = @ + 1])

NextPage(scr) ==
    IF scr.current_page < scr.total_pages
    THEN update_results_page([scr EXCEPT !.current_page = @ + 1])
    ELSE scr

\* X.prev_page
PrevPage(scr) ==
    IF scr.current_page > 1
    THEN update_results_page([scr EXCEPT !.current_page = @ - 1])
    ELSE scr

InitScreen ==
    /\ screen \in {NewScreen("individual"),
                   [NewScreen("folder") EXCEPT !.selected_files = SeqOf(Files)]}
    /\ call = NoCall
    /\ after_queue = <<>>
    /\ model_exists = TRUE
    /\ ui_pending = NoSelection
    /\ run = <<>>
    /\ stdout = <<>>

PageCall(fn, scr) == [fn |-> fn, shown |-> resumes_to_display(scr)]

\* the Add Resume button
click_add_resume ==
    /\ screen.kind = "individual"
    /\ Len(screen.resume_list) < MaxResumes
    /\ \E name_given \in BOOLEAN, selected_file \in Files \cup {None} :
         /\ screen' = add_resume_on(screen, name_given, selected_file)
         /\ call' = [fn |-> "add_resume",
                     name_given |-> name_given,
                     selected_file |-> selected_file,
                     resume_list |-> screen.resume_list,
                     counter_label |-> screen.counter_label,
                     process_btn |-> screen.process_btn]
    /\ UNCHANGED <<model_exists, ui_pending, run, after_queue, stdout>>

\* the Analyze button: process_resumes_thread past its input checks; the
\* worker it starts ends by scheduling one of its two callbacks
click_process_resumes_thread ==
    /\ screen.process_btn = "normal"
    /\ Documents(screen) # <<>>
    /\ Len(after_queue) < MaxInFlight
    /\ screen' = reset_pagination_state(screen)
    /\ \E kind \in {"result", "error"} :
         after_queue' = Append(after_queue, [run |-> 0, kind |-> kind])
    /\ call' = [fn |-> "process_resumes_thread"]
    /\ UNCHANGED <<model_exists, ui_pending, run, stdout>>

\* the main loop runs lambda: self.update_results_display(ranked_resumes_data)
deliver_update_results_display ==
    /\ HeadIs("result")
    /\ \E n \in 1..MaxRanked :
         screen' = update_results_page(
                       [screen EXCEPT !.all_ranked_resumes = update_results_display(Rankings[n]),
                                      !.current_page = 1])
    /\ call' = PageCall("update_results_display", screen')
    /\ after_queue' = Tail(after_queue)
    /\ UNCHANGED <<model_exists, ui_pending, run, stdout>>

\* the main loop runs lambda: self.handle_error(str(e)), e being bound
deliver_handle_error ==
    /\ HeadIs("error")
    /\ screen' = handle_error(screen)
    /\ call' = [fn |-> "handle_error"]
    /\ after_queue' = Tail(after_queue)
    /\ UNCHANGED <<model_exists, ui_pending, run, stdout>>

\* the same lambda after the except clause has ended: NameError
deliver_handle_error_unbound ==
    /\ HeadIs("error")
    /\ call' = [fn |-> "lambda"]
    /\ after_queue' = Tail(after_queue)
    /\ UNCHANGED <<model_exists, screen, ui_pending, run, stdout>>

\* the Next button (a disabled button does not call its command)
next_page ==
    /\ screen.next_button = "normal"
    /\ screen' = NextPage(screen)
    /\ call' = PageCall("next_page", screen')
    /\ UNCHANGED <<model_exists, ui_pending, run, after_queue, stdout>>

\* the Previous button
prev_page ==
    /\ screen.prev_button = "normal"
    /\ screen' = PrevPage(screen)
    /\ call' = PageCall("prev_page", screen')
    /\ UNCHANGED <<model_exists, ui_pending, run, after_queue, stdout>>

NextScreen ==
    \/ click_add_resume
    \/ click_process_resumes_thread
    \/ deliver_update_results_display
    \/ deliver_handle_error
    \/ deliver_handle_error_unbound
    \/ next_page
    \/ prev_page

SpecScreen == InitScreen /\ [][NextScreen]_vars

\* ------------------------------------------------- the text of a file
\* files whose pages hold no text but whitespace (a scanned document)
Blank == {f \in Files : f = 3}

\* page.get_text() of each page of the file
Pages(f) == IF f \in Blank THEN <<<<" ">>, <<"\n">>>> ELSE <<<<"A", " ", "a">>, <<"\n", "1">>>>

\* extract_text: text = ""; for page in doc: text += page.get_text()
RECURSIVE extract_text_pages(_)
extract_text_pages(pages) ==
    IF pages = <<>> THEN <<>> ELSE Head(pages) \o extract_text_pages(Tail(pages))

extract_text(pdf_path) == extract_text_pages(Pages(pdf_path))

\* the "text" entry of the document made of a file:
\* normalized_text = normalize_text(extract_text(...))
normalized_text(pdf_path) == normalize_text(extract_text(pdf_path))

\* ================================================================= claims
\* the record of run r still holds the run's observations
Tracked(r) == r \in Runs /\ run[r].flow # "none"
Failed(r) == Tracked(r) /\ run[r].err # "none"
Succeeded(r) == Tracked(r) /\ run[r].pc = "done" /\ run[r].err = "none"
Threads == {r \in Runs : run[r].pc # "done"}

\* C1: within one run the fractions passed to update_progress never
\* decrease, from the first call of the run to the last.
C1_NonDecreasing == \A r \in Runs : run[r].nondecreasing

\* C2: every fraction passed to update_progress lies in [0.0, 1.0], also
\* when select_resumes replaces the selection while the worker's for loop
\* is computing (i+1)/total_files * 0.5.
C2_InUnitInterval == \A r \in Runs : run[r].in_unit

\* C3: once a failed run is over, handle_error has been called exactly once
\* for it, with the description of the exception that ended it, whenever
\* the main loop ran the scheduled lambda.
C3_FailureReportedOnce ==
    \A r \in Runs : Failed(r) /\ Over(r) =>
        run[r].errors = 1 /\ run[r].error_msg = run[r].err

\* C4: a failed run is abandoned as a whole: update_results_display is
\* never called for it and no completion callback is scheduled for it, no
\* run has both a completion and a failure, and a run whose model
\* provisioning failed never calls rank_resumes.
C4_FailedRunAbandoned ==
    /\ \A r \in Runs :
         /\ Failed(r) => run[r].results = 0 /\ run[r].delivered = <<>>
         /\ ~(run[r].results > 0 /\ run[r].errors > 0)
         /\ run[r].err = "model" => run[r].rank_calls = 0
    /\ \A k \in 1..Len(after_queue) :
         after_queue[k].kind = "result" => run[after_queue[k].run].err = "none"

C4_Witness ==
    \E r \in Runs : /\ Failed(r) /\ Over(r)
                    /\ run[r].err = "model"
                    /\ run[r].errors = 1

\* C5: update_results_display is called at most once per run, exactly once
\* by the time a successful run is over, and what it stores is the whole
\* list rank_resumes returned.
C5_DeliveredOnceComplete ==
    \A r \in Runs :
        /\ run[r].results <= 1
        /\ run[r].results = 1 => run[r].delivered = run[r].ranked
        /\ Succeeded(r) /\ Over(r) => run[r].results = 1

C5_Witness ==
    \E r \in Runs : /\ Succeeded(r) /\ Over(r)
                    /\ run[r].results = 1
                    /\ Len(run[r].delivered) >= 2

\* C6: at most one worker thread is alive at a time, and while a run is in
\* flight (its callback not yet delivered) the Analyze button is disabled.
C6_SingleWorker ==
    /\ Cardinality(Threads) <= 1
    /\ NumInFlight > 0 => screen.process_btn = "disabled"

C8_SuccessEndsAtOne == \A r \in Runs : Succeeded(r) => run[r].last = One

C8_Witness ==
    \E r \in Runs : /\ Succeeded(r) /\ Over(r)
                    /\ run[r].attached
                    /\ run[r].results = 1

\* C9: a run that ends in failure has passed no fraction 1.0 to
\* update_progress at any point.
C9_NoOneOnFailure == \A r \in Runs : Failed(r) => ~run[r].one_passed

\* C10: in the folder flow no run is ended by the extraction failure of a
\* file: each file the loop takes is either appended to resumes or skipped
\* with a warning, no unreadable file is passed to rank_resumes, and the
\* ranking rank_resumes returns has n - k entries for n files taken and k
\* skipped.
C10_ExtractionFailureSkipped ==
    \A r \in Runs : run[r].flow = "folder" =>
        /\ run[r].err # "extract"
        /\ run[r].pc \in {"for", "rk_job", "rk_encode", "rk_cos", "rk_done"} =>
             /\ Len(run[r].resumes) = run[r].it - Len(run[r].skipped)
             /\ \A k \in 1..Len(run[r].resumes) : run[r].resumes[k] \notin Corrupt
             /\ \A k \in 1..Len(run[r].skipped) : run[r].skipped[k] \in Corrupt
        /\ run[r].pc \in {"rk_encode", "rk_cos", "rk_done"} =>
             run[r].texts = run[r].resumes
        /\ run[r].pc = "rk_done" =>
             Len(run[r].ranked) = run[r].it - Len(run[r].skipped)

C10_Witness ==
    \E r \in Runs : /\ run[r].flow = "folder"
                    /\ run[r].pc = "rk_done"
                    /\ Len(run[r].skipped) = 1
                    /\ Len(run[r].ranked) = 2

\* C11: a folder run in which the extraction of every file failed ends
\* with the no-valid-resumes error: rank_resumes is not called, no
\* completion is scheduled or delivered, and once the run is over
\* handle_error has been called for it with that error.
C11_AllFailedNoValidInput ==
    \A r \in Runs :
        /\ run[r].flow = "folder" /\ run[r].pc \in {"rk_job", "rk_encode", "rk_cos", "rk_done"}
               => run[r].resumes # <<>>
        /\ run[r].err = "novalid" =>
               /\ run[r].rank_calls = 0
               /\ run[r].results = 0
               /\ \A k \in 1..Len(after_queue) :
                      after_queue[k].run = r => after_queue[k].kind = "error"
               /\ Over(r) => run[r].errors = 1 /\ run[r].error_msg = "novalid"

\* C12: when the for loop of a folder run has ended, the record of
\* extraction failures names each file whose extraction failed in that
\* run exactly once and nothing else, so that the failures of the run can
\* be read off it.  The only record the code keeps is the warning lines on
\* the standard output.
C12_FailureRecordPerRun ==
    \A r \in Runs :
        run[r].flow = "folder" /\ run[r].pc = "rk_job" => stdout = run[r].skipped

Returned == call.fn = "rank_resumes" /\ call.state = "returned"

\* C13: the list rank_resumes returns is sorted by score, descending: the
\* score of each entry is at least the score of the entry after it.
C13_SortedDescending ==
    Returned =>
        \A k \in 1..(Len(call.ranked_resumes) - 1) :
            call.ranked_resumes[k][2] >= call.ranked_resumes[k + 1][2]

C13_Witness ==
    /\ Returned
    /\ Len(call.ranked_resumes) = 3
    /\ call.resumes[1] = 1 /\ call.resumes[2] = 3
    /\ call.ranked_resumes[1][2] > call.ranked_resumes[3][2]

\* position of document d in the list l of distinct documents
Position(l, d) == CHOOSE k \in 1..Len(l) : l[k] = d

\* C14: the sort is stable: two documents with equal scores are in the
\* list rank_resumes returns in the order they have in the list passed,
\* and the list A, B, C with scores 0.5714, 0.9, 0.5714 is ranked B, A, C.
C14_StableOnTies ==
    Returned =>
        /\ \A j, k \in 1..Len(call.ranked_resumes) :
               j < k /\ call.ranked_resumes[j][2] = call.ranked_resumes[k][2]
                   => Position(call.resumes, call.ranked_resumes[j][1])
                          < Position(call.resumes, call.ranked_resumes[k][1])
        /\ call.resumes = <<1, 3, 4>>
               => call.ranked_resumes = <<<<3, 9000>>, <<1, 5714>>, <<4, 5714>>>>

C14_Witness ==
    /\ Returned
    /\ call.resumes = <<1, 3, 4>>
    /\ call.ranked_resumes[2][2] = call.ranked_resumes[3][2]

\* C15: for a non-empty list, what rank_resumes returns has the length of
\* the list passed, holds every document of it exactly once, and pairs
\* each document with the score computed for that document.
C15_Permutation ==
    Returned /\ call.resumes # <<>> =>
        /\ Len(call.ranked_resumes) = Len(call.resumes)
        /\ \A d \in Docs :
               Cardinality({k \in 1..Len(call.ranked_resumes) : call.ranked_resumes[k][1] = d})
                   = Cardinality({k \in 1..Len(call.resumes) : call.resumes[k] = d})
        /\ \A k \in 1..Len(call.ranked_resumes) :
               call.ranked_resumes[k][2] = CosineScore(call.ranked_resumes[k][1])

C15_Witness ==
    /\ Returned
    /\ Len(call.resumes) = MaxDocs
    /\ call.ranked_resumes[1][1] # call.resumes[1]

\* C16: called with an empty list, rank_resumes returns an empty list,
\* without raising and without a call of model.encode.
C16_EmptyListNoModel ==
    call.fn = "rank_resumes" /\ call.state # "called" /\ call.resumes = <<>> =>
        /\ call.state = "returned"
        /\ call.ranked_resumes = <<>>
        /\ call.encode_calls = 0

Result(fn) == call.fn = fn /\ call.state = "returned"

\* C17: normalize_text is idempotent: normalizing its result again leaves
\* the result as it is.
C17_Idempotent ==
    Result("normalize_text") => normalize_text(call.result) = call.result

\* the spaces that stand between two uppercase letters each of which is
\* a word of its own
BetweenSingleLetters(text) ==
    {k \in 2..(Len(text) - 1) :
        /\ text[k] = " "
        /\ text[k - 1] \in Upper /\ text[k + 1] \in Upper
        /\ (k = 2 \/ text[k - 2] \in Whitespace)
        /\ (k = Len(text) - 1 \/ text[k + 2] \in Whitespace)}

\* C18: remove_spaced_out_words removes the spaces between single
\* uppercase letters and nothing else, so no space next to a lowercase
\* letter, a digit or a punctuation character; "J O H N Smith" gives
\* "JOHN Smith", "A B C 1 2 3" gives "ABC 1 2 3", "a b c" stays.
C18_DespacingOnlyUppercaseRuns ==
    /\ Result("remove_spaced_out_words") =>
           call.result = Without(call.text, BetweenSingleLetters(call.text), 1)
    /\ remove_spaced_out_words(
           <<"J", " ", "O", " ", "H", " ", "N", " ", "S", "m", "i", "t", "h">>)
         = <<"J", "O", "H", "N", " ", "S", "m", "i", "t", "h">>
    /\ remove_spaced_out_words(<<"A", " ", "B", " ", "C", " ", "1", " ", "2", " ", "3">>)
         = <<"A", "B", "C", " ", "1", " ", "2", " ", "3">>
    /\ remove_spaced_out_words(<<"a", " ", "b", " ", "c">>) = <<"a", " ", "b", " ", "c">>

C18_Witness ==
    /\ Result("remove_spaced_out_words")
    /\ call.text = <<"A", " ", "A", " ">>
    /\ call.result = <<"A", "A", " ">>

\* C19: what normalize_text returns neither starts nor ends with
\* whitespace, holds no whitespace character but the space and no two
\* spaces in a row; for an empty or all-whitespace text it is empty.
C19_WhitespaceCollapsed ==
    Result("normalize_text") =>
        LET out == call.result
        IN /\ out # <<>> => out[1] \notin Whitespace /\ out[Len(out)] \notin Whitespace
           /\ \A k \in 1..Len(out) : out[k] \in Whitespace => out[k] = " "
           /\ \A k \in 1..(Len(out) - 1) : ~(out[k] = " " /\ out[k + 1] = " ")
           /\ (\A k \in 1..Len(call.text) : call.text[k] \in Whitespace) => out = <<>>

C19_Witness ==
    /\ Result("normalize_text")
    /\ call.text = <<"a", "\t", "\n", "a">>
    /\ call.result = <<"a", " ", "a">>

\* C20: extract_candidate_name returns the first line that is not blank,
\* without the whitespace around it: the text from its first character
\* that is not whitespace to the last such character before the next line
\* boundary; it returns the empty text when there is no such character.
C20_FirstNonBlankLine ==
    Result("extract_candidate_name") =>
        LET text == call.text
            visible == {k \in 1..Len(text) : text[k] \notin Whitespace}
        IN IF visible = {} THEN call.result = <<>>
           ELSE LET first == CHOOSE k \in visible : \A j \in visible : k <= j
                    ends == {k \in first..Len(text) : text[k] \in LineBoundaries}
                    stop == IF ends = {} THEN Len(text) + 1
                            ELSE CHOOSE k \in ends : \A j \in ends : k <= j
                    inline == {k \in visible : k < stop}
                    last == CHOOSE k \in inline : \A j \in inline : k >= j
                IN call.result = SubSeq(text, first, last)

C20_Witness ==
    /\ Result("extract_candidate_name")
    /\ call.text = <<"\n", " ", "a", "\n">>
    /\ call.result = <<"a">>

\* the worker of run r is past its call of load_model, which returned
PastLoad(rec) == rec.pc \in {"after_load", "for", "rk_job", "rk_encode", "rk_cos", "rk_done"}

\* C21: once a call of load_model has returned a model, the model directory
\* exists and stays, and a call that starts when the directory exists never
\* goes on to fetch the model from the distribution source.
C21_NoRefetch ==
    [][/\ model_exists => model_exists'
       /\ \A r \in DOMAIN run' : PastLoad(run'[r]) => model_exists'
       /\ \A r \in Runs : run[r].pc = "load_model" /\ model_exists
                              => run'[r].pc # "dl_fetch"]_vars

C21_Witness ==
    \E k, r \in Runs : /\ k < r
                       /\ PastLoad(run[k])
                       /\ run[r].pc = "ld_loop" /\ run[r].i = 1

\* C22: a call of load_model that starts after another call has returned a
\* model returns the handle of that call: it neither loads the model from
\* the directory nor fetches it, and makes no progress sweep.
C22_HandleCached ==
    [][\A r \in Runs :
           run[r].pc = "load_model" /\ (\E k \in Runs : k # r /\ PastLoad(run[k]))
               => run'[r].pc \notin {"ld_loop", "dl_fetch"}]_vars

\* C23: the fractions one call of load_model passes to its callback start
\* at 0.0, never decrease and end at 1.0: 0.0 before the fetch and 1.0 after
\* the save when there is no directory; 0.0, then 0.1, 0.2, ... 1.0, then
\* 1.0 after the load when there is one.
C23_LoadProgress ==
    \A r \in Runs :
        /\ run[r].pc = "dl_fetch" => run[r].last = Zero
        /\ run[r].pc = "ld_loop" =>
               /\ run[r].i \in 1..LoadSteps
               /\ run[r].last = Frac(run[r].i - 1, 10)
        /\ run[r].pc = "ld_load" => run[r].last = One
        /\ run[r].pc = "after_load" => run[r].last = One /\ run[r].one_passed
        /\ run[r].pc \in {"dl_fetch", "ld_loop", "ld_load", "after_load"} =>
               run[r].nondecreasing /\ run[r].in_unit

C23_Witness ==
    \E r \in Runs : run[r].pc = "ld_loop" /\ run[r].i = LoadSteps /\ run[r].last = Frac(9, 10)

\* C24: the model directory is written at most once: a caller of load_model
\* saves the model it fetched only when the directory does not exist yet.
C24_WrittenOnce ==
    [][\A r \in RunIds : load_model_fetch_save(r) => ~model_exists]_vars

\* C25: every document whose text rank_resumes encodes has a normalized
\* text that is not empty, in the individual and in the folder flow, also
\* for a file whose extraction succeeds with nothing but whitespace.
C25_NonEmptyText ==
    \A r \in Runs :
        run[r].pc \in {"rk_encode", "rk_cos", "rk_done"} =>
            \A k \in 1..Len(run[r].texts) : normalized_text(run[r].texts[k]) # <<>>

\* C26: every run whose screen stays shown leads to the Analyze button of
\* that screen being enabled again, whichever way its worker ends.
C26_ButtonEnabledAgain ==
    \A r \in RunIds :
        (r \in Runs /\ run[r].pc # "done")
            ~> (r \in Runs /\ (~run[r].attached \/ screen.process_btn = "normal"))

\* the elements of a list
Range(l) == {l[k] : k \in 1..Len(l)}

\* C27: what a run takes, encodes and ranks is the list of documents the
\* screen had when Analyze was clicked, whatever add_resume or
\* select_resumes does while the worker runs.
C27_WorkingSetAtTrigger ==
    \A r \in Runs :
        run[r].attached /\ run[r].pc \in {"rk_encode", "rk_cos", "rk_done"} =>
            /\ run[r].flow = "individual" => run[r].texts = run[r].given
            /\ run[r].flow = "folder" =>
                   /\ Range(run[r].resumes) \cup Range(run[r].skipped) = Range(run[r].given)
                   /\ Len(run[r].resumes) + Len(run[r].skipped) = Len(run[r].given)
            /\ run[r].pc = "rk_done" /\ run[r].flow = "individual" =>
                   /\ Len(run[r].ranked) = Len(run[r].given)
                   /\ {run[r].ranked[k][1] : k \in 1..Len(run[r].ranked)} = Range(run[r].given)

\* C28: on a results screen 1 <= current_page <= total_pages in every
\* state, whatever the order of next_page, prev_page, deliveries, Analyze
\* clicks and errors; next_page on the last page and prev_page on the
\* first page change nothing.
C28_PageInRange ==
    /\ 1 <= screen.current_page
    /\ screen.current_page <= screen.total_pages
    /\ screen.current_page = screen.total_pages => NextPage(screen) = screen
    /\ screen.current_page = 1 => PrevPage(screen) = screen

C28_Witness ==
    /\ call.fn = "next_page"
    /\ screen.total_pages = 3
    /\ screen.current_page = 3
    /\ screen.next_button = "disabled"

\* the cards of the pages p .. total, one page after the other
RECURSIVE PagesFrom(_, _, _)
PagesFrom(ranked, p, total) ==
    IF p > total THEN <<>> ELSE PageOf(ranked, p) \o PagesFrom(ranked, p + 1, total)

\* C29: with n ranked entries there are max(1, ceil(n/10)) pages; the page
\* drawn holds the entries at the positions (p-1)*10+1 .. min(p*10, n) of
\* the ranking, in that order, each labelled with its position; the pages
\* taken together hold every entry once, labelled 1..n.
C29_PagesPartition ==
    call.fn \in {"update_results_display", "next_page", "prev_page"} =>
        LET ranked == screen.all_ranked_resumes
            n == Len(ranked)
            total == screen.total_pages
            p == screen.current_page
            first == (p - 1) * 10 + 1
            last == Min(p * 10, n)
        IN /\ total >= 1 /\ 10 * total >= n /\ (total > 1 => 10 * (total - 1) < n)
           /\ call.shown = [j \in 1..(last - first + 1) |->
                               [rank |-> first + j - 1, entry |-> ranked[first + j - 1]]]
           /\ PagesFrom(ranked, 1, total) = [k \in 1..n |-> [rank |-> k, entry |-> ranked[k]]]

C29_Witness ==
    /\ call.fn = "next_page"
    /\ Len(screen.all_ranked_resumes) = 25
    /\ screen.current_page = 3
    /\ Len(call.shown) = 5
    /\ call.shown[5].rank = 25

\* C30: an add_resume that is rejected (no candidate name, no file chosen)
\* or whose extraction fails leaves resume_list, the resume counter and
\* the state of the Analyze button as they were.
C30_RejectedAddNoChange ==
    /\ call.fn = "add_resume"
    /\ ~call.name_given \/ call.selected_file = None \/ call.selected_file \in Corrupt
    => /\ screen.resume_list = call.resume_list
       /\ screen.counter_label = call.counter_label
       /\ screen.process_btn = call.process_btn

C30_Witness ==
    /\ call.fn = "add_resume"
    /\ call.name_given /\ call.selected_file \in Corrupt
    /\ Len(screen.resume_list) = 1
    /\ screen.process_btn = "disabled"

====
